---- MODULE Spec2Model ----
(***************************************************************************)
(* A model of memecoin_bot.py: the pool evaluation pipeline (usd,          *)
(* hours_since, summarize_pool, looks_like_memecoin, scan_geckoterminal)   *)
(* and the three fetching command handlers (trending, new, search) with    *)
(* their network sessions and replies.                                     *)
(*                                                                         *)
(* JSON values are tagged records: Null (Python None), Num(n), Str(s) with *)
(* s a sequence of one-character strings, Obj (a non-empty JSON object in  *)
(* a scalar's place) and Dict(keys, f) for the objects the code reads      *)
(* fields of.  Floats are modelled by integers; math.inf by an age record  *)
(* whose inf flag is set.  Timestamps are strings of decimal digits (the   *)
(* local clock reading, in hours) with an optional zone suffix "Z", "+d"   *)
(* or "-d".                                                                *)
(***************************************************************************)
EXTENDS Integers, Sequences, FiniteSets, TLC

VARIABLES
    rec,        \* the raw pool record handed to summarize_pool (record-level runs)
    rpc,        \* position of the record-level run: raw / summarized / raised / filtered
    summ,       \* what summarize_pool produced for rec
    elig,       \* what looks_like_memecoin produced for summ.m
    pc,         \* pc[i]: position of command invocation i
    cmd,        \* cmd[i]: the command invocation i runs
    client,     \* client[i]: the httpx.AsyncClient invocation i holds (0: none)
    opened,     \* opened[s]: the invocation that opened session s
    openSessions, \* the sessions not yet closed
    requests,   \* the GETs issued: [inv, session]
    resp,       \* resp[i]: the outcome of invocation i's fetch
    ret,        \* ret[i]: what the processing of invocation i produced
    replies     \* replies[i]: the messages sent by invocation i, in order

vars == <<rec, rpc, summ, elig, pc, cmd, client, opened, openSessions,
          requests, resp, ret, replies>>

recVars == <<rec, rpc, summ, elig>>
cmdVars == <<pc, cmd, client, opened, openSessions, requests, resp, ret, replies>>

----------------------------------------------------------------------------
(* Configuration *)

MIN_LIQ_USD == 3000
MIN_1H_TXNS == 20
MAX_FDV_USD == 20000000
MAX_POOL_AGE_HOURS == 48
TopN == 10

\* datetime.now(timezone.utc), in hours
NowHours == 100

----------------------------------------------------------------------------
(* JSON values *)

Null == [t |-> "null"]
Obj == [t |-> "obj"]
Num(n) == [t |-> "num", v |-> n]
Str(s) == [t |-> "str", v |-> s]

\* a key the sample record does not hold at all
Absent == [t |-> "absent"]

Digits == {"0", "1", "2", "3", "4", "5", "6", "7", "8", "9"}

DigitVal(c) ==
    CASE c = "0" -> 0 [] c = "1" -> 1 [] c = "2" -> 2 [] c = "3" -> 3
      [] c = "4" -> 4 [] c = "5" -> 5 [] c = "6" -> 6 [] c = "7" -> 7
      [] c = "8" -> 8 [] c = "9" -> 9

AllDigits(s) == Len(s) >= 1 /\ \A i \in 1..Len(s) : s[i] \in Digits

RECURSIVE DecVal(_)
DecVal(s) ==
    IF s = <<>> THEN 0
    ELSE 10 * DecVal(SubSeq(s, 1, Len(s) - 1)) + DigitVal(s[Len(s)])

\* Python truthiness of a JSON value
Truthy(x) ==
    CASE x.t = "null" -> FALSE
      [] x.t = "num" -> x.v # 0
      [] x.t = "str" -> x.v # <<>>
      [] OTHER -> TRUE

\* float(x) of a truthy value: whether it raises, and its value when it does not
FloatRaises(x) ==
    CASE x.t = "num" -> FALSE
      [] x.t = "str" ->
            LET body == IF x.v # <<>> /\ x.v[1] \in {"-", "+"} THEN Tail(x.v) ELSE x.v
            IN  ~AllDigits(body)
      [] OTHER -> TRUE

FloatOf(x) ==
    CASE x.t = "num" -> x.v
      [] x.t = "str" ->
            IF x.v[1] = "-" THEN 0 - DecVal(Tail(x.v))
            ELSE IF x.v[1] = "+" THEN DecVal(Tail(x.v))
            ELSE DecVal(x.v)

usd(x) ==
    IF Truthy(x)
    THEN IF FloatRaises(x) THEN 0 ELSE FloatOf(x)
    ELSE 0

----------------------------------------------------------------------------
(* hours_since *)

AgeInf == [inf |-> TRUE, h |-> 0]
AgeOf(n) == [inf |-> FALSE, h |-> n]

\* the longest prefix of s made of digits
RECURSIVE DigitPrefixLen(_)
DigitPrefixLen(s) ==
    IF s = <<>> \/ s[1] \notin Digits THEN 0 ELSE 1 + DigitPrefixLen(Tail(s))

ZoneOk(z) ==
    \/ z = <<>>
    \/ z = <<"Z">>
    \/ Len(z) = 2 /\ z[1] \in {"+", "-"} /\ z[2] \in Digits

\* isoparse: raises on anything that is not a well-formed timestamp string
IsoRaises(x) ==
    \/ x.t # "str"
    \/ LET n == DigitPrefixLen(x.v)
       IN  n = 0 \/ ~ZoneOk(SubSeq(x.v, n + 1, Len(x.v)))

\* the parsed instant in UTC hours; a timestamp without a zone is taken as UTC
IsoUtc(x) ==
    LET n == DigitPrefixLen(x.v)
        local == DecVal(SubSeq(x.v, 1, n))
        z == SubSeq(x.v, n + 1, Len(x.v))
        off == IF Len(z) = 2
               THEN IF z[1] = "+" THEN DigitVal(z[2]) ELSE 0 - DigitVal(z[2])
               ELSE 0
    IN  local - off

\* hours_since with the failure taken as "just created"
hours_since_fail_open(dt_iso) ==
    IF IsoRaises(dt_iso) THEN AgeOf(0) ELSE AgeOf(NowHours - IsoUtc(dt_iso))

hours_since(dt_iso) ==
    IF IsoRaises(dt_iso) THEN AgeInf ELSE AgeOf(NowHours - IsoUtc(dt_iso))

----------------------------------------------------------------------------
(* summarize_pool *)

AttrKeys == {"fdv_usd", "reserve_in_usd", "price_in_usd", "buys_1h", "sells_1h",
             "pool_created_at", "base_token_symbol", "quote_token_symbol",
             "url", "base_token_name"}

Dict(keys, f) == [t |-> "dict", keys |-> keys, f |-> f]

\* d.get(k): None when the key is missing
Get(d, k) == IF k \in d.keys THEN d.f[k] ELSE Null

EmptyAttrs == Dict({}, [k \in AttrKeys |-> Null])

\* p.get("attributes", {}) followed by attrs.get(...): raises when p is not a
\* dict or when the attributes value is not one
AttrsRaises(p) ==
    \/ p.t # "dict"
    \/ "attributes" \in p.keys /\ p.f["attributes"].t # "dict"

AttrsOf(p) == IF "attributes" \in p.keys THEN p.f["attributes"] ELSE EmptyAttrs

\* x or 0
OrZero(x) == IF Truthy(x) THEN x ELSE Num(0)

\* buys + sells: ints add, strings concatenate, anything else raises TypeError
AddRaises(a, b) == ~(a.t = "num" /\ b.t = "num") /\ ~(a.t = "str" /\ b.t = "str")

Add(a, b) == IF a.t = "num" THEN Num(a.v + b.v) ELSE Str(a.v \o b.v)

Raised == [raised |-> TRUE]

summarize_pool(p) ==
    IF AttrsRaises(p) THEN Raised
    ELSE
    LET attrs == AttrsOf(p)
        fdv == usd(Get(attrs, "fdv_usd"))
        liq == usd(Get(attrs, "reserve_in_usd"))
        price == usd(Get(attrs, "price_in_usd"))
        buys == OrZero(Get(attrs, "buys_1h"))
        sells == OrZero(Get(attrs, "sells_1h"))
    IN  IF AddRaises(buys, sells) THEN Raised
        ELSE
        LET txs == Add(buys, sells)
            age_h == hours_since(Get(attrs, "pool_created_at"))
            base == Get(attrs, "base_token_symbol")
            quote == Get(attrs, "quote_token_symbol")
            url == Get(attrs, "url")
            name == IF Truthy(Get(attrs, "base_token_name"))
                    THEN Get(attrs, "base_token_name") ELSE base
        IN  [raised |-> FALSE,
             text |-> [t |-> "report", name |-> name, base |-> base, quote |-> quote,
                       price |-> price, liq |-> liq, fdv |-> fdv, buys |-> buys,
                       sells |-> sells, txs |-> txs, age |-> age_h, url |-> url],
             m |-> [fdv |-> fdv, liq |-> liq, txs |-> txs, age |-> age_h]]

----------------------------------------------------------------------------
(* looks_like_memecoin *)

\* the comparison of txs with an int raises TypeError when txs is a string; it
\* is reached only when the liquidity comparison before it was true
FilterRaises(m) == m.liq >= MIN_LIQ_USD /\ m.txs.t # "num"

\* looks_like_memecoin with the last "and" written "or"
looks_like_memecoin_or(m) ==
    /\ m.liq >= MIN_LIQ_USD
    /\ m.txs.v >= MIN_1H_TXNS
    /\ (m.fdv <= MAX_FDV_USD \/ (~m.age.inf /\ m.age.h <= MAX_POOL_AGE_HOURS))

looks_like_memecoin(m) ==
    /\ m.liq >= MIN_LIQ_USD
    /\ m.txs.v >= MIN_1H_TXNS
    /\ m.fdv <= MAX_FDV_USD
    /\ (~m.age.inf /\ m.age.h <= MAX_POOL_AGE_HOURS)

----------------------------------------------------------------------------
(* Sample raw records *)

Attrs(fdv, liq, price, buys, sells, created, name, base) ==
    LET vals == [k \in AttrKeys |->
                    CASE k = "fdv_usd" -> fdv
                      [] k = "reserve_in_usd" -> liq
                      [] k = "price_in_usd" -> price
                      [] k = "buys_1h" -> buys
                      [] k = "sells_1h" -> sells
                      [] k = "pool_created_at" -> created
                      [] k = "base_token_name" -> name
                      [] k = "base_token_symbol" -> base
                      [] k = "quote_token_symbol" -> Str(<<"W">>)
                      [] k = "url" -> Str(<<"u">>)]
    IN  Dict({k \in AttrKeys : vals[k] # Absent},
             [k \in AttrKeys |-> IF vals[k] = Absent THEN Null ELSE vals[k]])

\* a pool record of the list, with the attributes value it holds (Absent: none)
PoolItem(attrs) ==
    IF attrs = Absent THEN Dict({}, [k \in {"attributes"} |-> Null])
    ELSE Dict({"attributes"}, [k \in {"attributes"} |-> attrs])

FdvSamples == {Absent, Null, Num(1000000), Num(MAX_FDV_USD), Num(MAX_FDV_USD + 1),
               Str(<<"-", "5">>), Str(<<"a", "b", "c">>)}

LiqSamples == {Absent, Str(<<"5", "0", "0", "0">>), Str(<<"1", "0", "0", "0">>),
               Num(MIN_LIQ_USD), Num(MIN_LIQ_USD - 1), Str(<<"-", "5">>),
               Str(<<"x">>), Str(<<>>), Obj}

BuysSamples == {Absent, Null, Num(30), Num(10), Num(0), Num(-3), Str(<<"5">>)}

SellsSamples == {Absent, Num(10), Num(9), Str(<<"3">>)}

\* with NowHours = 100: 2 h, 48 h and 49 h old without a zone, 2 h old in UTC,
\* 3 h old with an offset, 5 h in the future, and the unreadable ones
CreatedSamples == {Absent, Null, Num(98), Str(<<"x">>), Str(<<>>), Str(<<"9", "8">>),
                   Str(<<"5", "2">>), Str(<<"5", "1">>), Str(<<"9", "8", "Z">>),
                   Str(<<"9", "9", "+", "2">>), Str(<<"9", "8", "+">>),
                   Str(<<"1", "0", "5">>)}

RawPools ==
    { PoolItem(Attrs(fdv, liq, Str(<<"1">>), buys, sells, created, Absent, Str(<<"A">>))) :
        fdv \in FdvSamples, liq \in LiqSamples, buys \in BuysSamples,
        sells \in SellsSamples, created \in CreatedSamples }
    \cup {PoolItem(Absent), PoolItem(Null), PoolItem(Str(<<"x">>)), Null, Str(<<"x">>)}

----------------------------------------------------------------------------
(* Record-level run: one raw record through summarize_pool and the filter *)

NoSummary == [raised |-> FALSE, none |-> TRUE]

Summarize ==
    /\ rpc = "raw"
    /\ summ' = summarize_pool(rec)
    /\ rpc' = IF summ'.raised THEN "raised" ELSE "summarized"
    /\ UNCHANGED <<rec, elig>>
    /\ UNCHANGED cmdVars

Filter ==
    /\ rpc = "summarized"
    /\ elig' = IF FilterRaises(summ.m) THEN "raise"
               ELSE IF looks_like_memecoin(summ.m) THEN "yes" ELSE "no"
    /\ rpc' = "filtered"
    /\ UNCHANGED <<rec, summ>>
    /\ UNCHANGED cmdVars

----------------------------------------------------------------------------
(* scan_geckoterminal, after the fetch *)

List(l) == [t |-> "list", v |-> l]

\* for item in x: raises on a value that cannot be iterated
IterRaises(x) == x.t \in {"null", "num"}

\* what the loop visits: the elements of a list, the characters of a string,
\* the keys of an object
IterItems(x) ==
    CASE x.t = "list" -> x.v
      [] x.t = "str" -> [i \in 1..Len(x.v) |-> Str(<<x.v[i]>>)]
      [] OTHER -> <<Str(<<"k">>)>>

\* the item raises in summarize_pool or in looks_like_memecoin
ItemRaises(p) ==
    LET r == summarize_pool(p) IN r.raised \/ FilterRaises(r.m)

RECURSIVE Eligible(_)
\* results, before the sort: the (m, text) pairs of the eligible items, in source order
Eligible(items) ==
    IF items = <<>> THEN <<>>
    ELSE LET r == summarize_pool(items[1])
         IN  IF looks_like_memecoin(r.m)
             THEN <<[m |-> r.m, text |-> r.text]>> \o Eligible(Tail(items))
             ELSE Eligible(Tail(items))

\* the sort key (txs, liq) of a compared with that of b
KeyGt(a, b) ==
    \/ a.m.txs.v > b.m.txs.v
    \/ a.m.txs.v = b.m.txs.v /\ a.m.liq > b.m.liq

RECURSIVE SortAscReversed(_)
\* an ascending stable sort, then reversed: descending, ties in reverse source order
SortAscReversed(s) ==
    IF s = <<>> THEN <<>>
    ELSE LET init == SortAscReversed(SubSeq(s, 1, Len(s) - 1))
             x == s[Len(s)]
             k == Cardinality({i \in 1..Len(init) : KeyGt(init[i], x)})
         IN  SubSeq(init, 1, k) \o <<x>> \o SubSeq(init, k + 1, Len(init))

RECURSIVE SortDesc(_)
\* list.sort(key=..., reverse=True): descending and stable
SortDesc(s) ==
    IF s = <<>> THEN <<>>
    ELSE LET init == SortDesc(SubSeq(s, 1, Len(s) - 1))
             x == s[Len(s)]
             k == Cardinality({i \in 1..Len(init) : ~KeyGt(x, init[i])})
         IN  SubSeq(init, 1, k) \o <<x>> \o SubSeq(init, k + 1, Len(init))

FirstN(s, n) == SubSeq(s, 1, IF Len(s) < n THEN Len(s) ELSE n)

NoCandidates == [t |-> "placeholder", s |-> "(no candidates found)"]
NoResults == [t |-> "placeholder", s |-> "(no PulseChain results found)"]

Picks(v) == [t |-> "picks", v |-> v]
Raise == [t |-> "raise"]
NoRet == [t |-> "none"]

\* lines 83-90 on the parsed body: the returned list, or an exception
ScanResult(data) ==
    IF data.t # "dict" THEN Raise
    ELSE
    LET pools == IF "data" \in data.keys THEN data.f["data"] ELSE List(<<>>)
    IN  IF IterRaises(pools) THEN Raise
        ELSE
        LET items == IterItems(pools)
        IN  IF \E i \in 1..Len(items) : ItemRaises(items[i]) THEN Raise
            ELSE
            LET results == SortDesc(Eligible(items))
                texts == FirstN([i \in 1..Len(results) |-> results[i].text], TopN)
            IN  Picks(IF texts = <<>> THEN <<NoCandidates>> ELSE texts)

----------------------------------------------------------------------------
(* search, after the fetch *)

PairKeys == {"chainId", "baseToken", "quoteToken", "url", "liquidity", "txns", "priceUsd"}

TargetChains == {<<"pulsechain">>, <<"pulse">>}

\* p.get("chainId") not in ("pulsechain", "pulse")
PairMatches(p) ==
    LET c == Get(p, "chainId") IN c.t = "str" /\ c.v \in TargetChains

\* d[k1][k2]: KeyError or TypeError unless both levels are there
SubscriptRaises(d, k1, k2) ==
    \/ k1 \notin d.keys
    \/ d.f[k1].t # "dict"
    \/ k2 \notin d.f[k1].keys

\* d.get(k1, {}).get(k2, dflt): raises when the first level is there and is no dict
GetGetRaises(d, k1) == k1 \in d.keys /\ d.f[k1].t # "dict"

GetGet(d, k1, k2, dflt) ==
    IF k1 \notin d.keys THEN dflt
    ELSE IF k2 \in d.f[k1].keys THEN d.f[k1].f[k2] ELSE dflt

\* the h1 object of txns: {} when txns or h1 is missing
H1Raises(p) ==
    \/ GetGetRaises(p, "txns")
    \/ "txns" \in p.keys /\ GetGetRaises(p.f["txns"], "h1")

EmptyH1 == Dict({}, [k \in {"buys", "sells"} |-> Null])

H1Of(p) ==
    IF "txns" \notin p.keys THEN EmptyH1
    ELSE IF "h1" \notin p.f["txns"].keys THEN EmptyH1
    ELSE p.f["txns"].f["h1"]

H1Get(h, k) == IF k \in h.keys THEN h.f[k] ELSE Num(0)

\* the body of the loop raises for a pair of the target chain
MatchRaises(p) ==
    \/ SubscriptRaises(p, "baseToken", "symbol")
    \/ SubscriptRaises(p, "quoteToken", "symbol")
    \/ GetGetRaises(p, "liquidity")
    \/ H1Raises(p)
    \/ AddRaises(H1Get(H1Of(p), "buys"), H1Get(H1Of(p), "sells"))
    \/ FloatRaises(Get(p, "priceUsd"))

PairRaises(p) == p.t # "dict" \/ (PairMatches(p) /\ MatchRaises(p))

PairLine(p) ==
    [t |-> "line",
     base |-> p.f["baseToken"].f["symbol"],
     quote |-> p.f["quoteToken"].f["symbol"],
     price |-> FloatOf(Get(p, "priceUsd")),
     liq |-> usd(GetGet(p, "liquidity", "usd", Null)),
     tx |-> Add(H1Get(H1Of(p), "buys"), H1Get(H1Of(p), "sells")),
     url |-> Get(p, "url")]

RECURSIVE Lines(_)
\* lines, in source order, of the pairs of the target chain
Lines(pairs) ==
    IF pairs = <<>> THEN <<>>
    ELSE IF PairMatches(pairs[1])
         THEN <<PairLine(pairs[1])>> \o Lines(Tail(pairs))
         ELSE Lines(Tail(pairs))

\* lines 131-147 on the parsed body: the text replied, or an exception
SearchResult(js) ==
    IF js.t # "dict" THEN Raise
    ELSE
    LET pairs == IF "pairs" \in js.keys THEN js.f["pairs"] ELSE List(<<>>)
    IN  IF IterRaises(pairs) THEN Raise
        ELSE
        LET items == IterItems(pairs)
        IN  IF \E i \in 1..Len(items) : PairRaises(items[i]) THEN Raise
            ELSE
            LET lines == Lines(items)
            IN  Picks(IF lines = <<>> THEN <<NoResults>> ELSE FirstN(lines, TopN))

----------------------------------------------------------------------------
(* Sample responses *)

MaxLen == 2
MaxLong == 12
NumInv == 2

Pool(name, liq, buys, sells, created) ==
    PoolItem(Attrs(Num(1000000), liq, Str(<<"1">>), buys, sells, created,
                   Str(<<name>>), Str(<<"S">>)))

Recent == Str(<<"9", "8">>)

\* tx = 50, liq = 5000; PoolA2 has the same keys under another name
PoolA == Pool("a", Str(<<"5", "0", "0", "0">>), Num(30), Num(20), Recent)
PoolA2 == Pool("b", Num(5000), Num(20), Num(30), Recent)
\* tx = 50, liq = 6000
PoolB == Pool("c", Num(6000), Num(25), Num(25), Recent)
\* tx = 20, liq = 9000, no sells_1h
PoolC == Pool("d", Num(9000), Num(20), Absent, Recent)
\* below the liquidity threshold
PoolLow == Pool("e", Str(<<"1", "0", "0", "0">>), Num(40), Num(40), Recent)
\* tx = 60, liq = 7000, and no readable creation time
PoolNoTime == Pool("f", Num(7000), Num(30), Num(30), Null)
PoolBadTime == Pool("g", Num(7000), Num(30), Num(30), Str(<<"x">>))
\* buys_1h is a numeric string
PoolStrBuys == Pool("h", Num(5000), Str(<<"5">>), Num(30), Recent)

SamplePools == {PoolA, PoolA2, PoolB, PoolC, PoolLow, PoolNoTime, PoolBadTime,
                PoolStrBuys, PoolItem(Null)}

Pair(chain, base, price, liq, txns) ==
    LET vals == [k \in PairKeys |->
                    CASE k = "chainId" -> chain
                      [] k = "baseToken" -> base
                      [] k = "quoteToken" ->
                            Dict({"symbol"}, [x \in {"symbol"} |-> Str(<<"W">>)])
                      [] k = "url" -> Str(<<"u">>)
                      [] k = "liquidity" -> liq
                      [] k = "txns" -> txns
                      [] k = "priceUsd" -> price]
    IN  Dict({k \in PairKeys : vals[k] # Absent},
             [k \in PairKeys |-> IF vals[k] = Absent THEN Null ELSE vals[k]])

Token(sym) == Dict({"symbol"}, [x \in {"symbol"} |-> Str(<<sym>>)])
Liquidity(v) == Dict({"usd"}, [x \in {"usd"} |-> v])
Txns(buys, sells) ==
    Dict({"h1"}, [x \in {"h1"} |->
        Dict({"buys", "sells"}, [k \in {"buys", "sells"} |->
                                    IF k = "buys" THEN buys ELSE sells])])

PairP1 == Pair(Str(<<"pulsechain">>), Token("A"), Str(<<"5">>),
               Liquidity(Num(5000)), Txns(Num(3), Num(4)))
\* no liquidity, no txns
PairP2 == Pair(Str(<<"pulse">>), Token("B"), Num(2), Absent, Absent)
PairEth == Pair(Str(<<"ethereum">>), Token("C"), Num(3),
                Liquidity(Num(900000)), Txns(Num(90), Num(90)))
\* another chain, and no price
PairEthNoPrice == Pair(Str(<<"ethereum">>), Token("D"), Absent,
                       Liquidity(Num(5000)), Txns(Num(3), Num(4)))
PairNoChain == Pair(Absent, Token("E"), Num(4), Liquidity(Num(5000)), Txns(Num(3), Num(4)))
\* the target chain, and no price
PairNoPrice == Pair(Str(<<"pulsechain">>), Token("F"), Absent,
                    Liquidity(Num(5000)), Txns(Num(3), Num(4)))
\* the target chain, liquidity null
PairNullLiq == Pair(Str(<<"pulse">>), Token("G"), Num(5), Null, Txns(Num(3), Num(4)))

SamplePairs == {PairP1, PairP2, PairEth, PairEthNoPrice, PairNoChain, PairNoPrice,
                PairNullLiq}

RECURSIVE SeqsUpTo(_, _)
\* the sequences over S of length at most n
SeqsUpTo(S, n) ==
    IF n = 0 THEN {<<>>}
    ELSE LET shorter == SeqsUpTo(S, n - 1)
         IN  shorter \cup {Append(l, x) : l \in shorter, x \in S}

Cycle(base, n) == [i \in 1..n |-> base[((i - 1) % Len(base)) + 1]]

\* the short lists, and each of them repeated beyond the result cap
ListsOver(S) ==
    LET short == SeqsUpTo(S, MaxLen)
    IN  short \cup {Cycle(b, n) : b \in short \ {<<>>}, n \in (TopN + 1)..MaxLong}

\* some longer pool lists: the ranking example, ties in both source orders, and
\* exactly TopN and TopN + 5 eligible records
ExampleLists ==
    {<<PoolA, PoolB, PoolC>>, <<PoolA2, PoolC, PoolA, PoolB>>,
     <<PoolNoTime, PoolA, PoolLow, PoolA2>>,
     Cycle(<<PoolC, PoolA, PoolB>>, TopN), Cycle(<<PoolC, PoolLow, PoolB, PoolA>>, TopN + TopN),
     Cycle(<<PoolC, PoolA, PoolB>>, TopN + 5)}

Envelope(k, v) ==
    IF v = Absent THEN Dict({}, [x \in {k} |-> Null])
    ELSE Dict({k}, [x \in {k} |-> v])

\* what the list field of a response body may hold besides a list
OddLists == {Absent, Null, Num(1), Str(<<"x">>), Str(<<>>), Obj}

Ok(body) == [t |-> "ok", body |-> body]
Failures == {[t |-> "http_error"], [t |-> "transport_error"], [t |-> "bad_body"]}
NoResp == [t |-> "none"]

ScanOutcomes ==
    Failures \cup {Ok(Null)}
    \cup {Ok(Envelope("data", v)) : v \in OddLists}
    \cup {Ok(Envelope("data", List(l))) : l \in ListsOver(SamplePools) \cup ExampleLists}

SearchOutcomes ==
    Failures \cup {Ok(Null)}
    \cup {Ok(Envelope("pairs", v)) : v \in OddLists}
    \cup {Ok(Envelope("pairs", List(l))) : l \in ListsOver(SamplePairs)}

Outcomes(name) == IF name = "search" THEN SearchOutcomes ELSE ScanOutcomes

\* the responses of the runs with several invocations
ConcOutcomes(name) ==
    {[t |-> "http_error"], [t |-> "transport_error"]} \cup
    {IF name = "search" THEN Ok(Envelope("pairs", List(<<PairP1>>)))
     ELSE Ok(Envelope("data", List(<<PoolA>>)))}

----------------------------------------------------------------------------
(* The command handlers *)

Invocations == 1..NumInv

NoCmd == [name |-> "none", arg |-> FALSE]
Cmd(name, arg) == [name |-> name, arg |-> arg]

Msg(k) == [k |-> k]
TextMsg(body) == [k |-> "text", body |-> body]

Say(i, m) == replies' = [replies EXCEPT ![i] = Append(@, m)]

\* /start: the welcome text
StartCmd(i) ==
    /\ pc[i] = "idle"
    /\ cmd' = [cmd EXCEPT ![i] = Cmd("start", FALSE)]
    /\ Say(i, Msg("welcome"))
    /\ pc' = [pc EXCEPT ![i] = "done"]
    /\ UNCHANGED <<client, opened, openSessions, requests, resp, ret>>
    /\ UNCHANGED recVars

\* /trending and /new, up to the call of scan_geckoterminal
ScanCmd(i, kind) ==
    /\ pc[i] = "idle"
    /\ cmd' = [cmd EXCEPT ![i] = Cmd(kind, FALSE)]
    /\ Say(i, Msg("progress"))
    /\ pc' = [pc EXCEPT ![i] = "open"]
    /\ UNCHANGED <<client, opened, openSessions, requests, resp, ret>>
    /\ UNCHANGED recVars

\* /search, up to the fetch: without a term it replies the usage line and returns
SearchCmd(i, hasArg) ==
    /\ pc[i] = "idle"
    /\ cmd' = [cmd EXCEPT ![i] = Cmd("search", hasArg)]
    /\ Say(i, IF hasArg THEN Msg("progress") ELSE Msg("usage"))
    /\ pc' = [pc EXCEPT ![i] = IF hasArg THEN "open" ELSE "done"]
    /\ UNCHANGED <<client, opened, openSessions, requests, resp, ret>>
    /\ UNCHANGED recVars

\* async with httpx.AsyncClient() as client: a session of the invocation's own
OpenSession(i) ==
    /\ pc[i] = "open"
    /\ LET s == Len(opened) + 1
       IN  /\ opened' = Append(opened, i)
           /\ openSessions' = openSessions \cup {s}
           /\ client' = [client EXCEPT ![i] = s]
    /\ pc' = [pc EXCEPT ![i] = "get"]
    /\ UNCHANGED <<cmd, requests, resp, ret, replies>>
    /\ UNCHANGED recVars

\* fetch_json: client.get on the invocation's client
SendGet(i) ==
    /\ pc[i] = "get"
    /\ requests' = [requests EXCEPT ![i] = Append(@, client[i])]
    /\ pc' = [pc EXCEPT ![i] = "wait"]
    /\ UNCHANGED <<cmd, client, opened, openSessions, resp, ret, replies>>
    /\ UNCHANGED recVars

\* fetch_json: the response arrives, or the request fails; raise_for_status and
\* r.json() turn an error status and an unreadable body into exceptions
Response(i, outcome) ==
    /\ pc[i] = "wait"
    /\ resp' = [resp EXCEPT ![i] = outcome]
    /\ pc' = [pc EXCEPT ![i] = "close"]
    /\ UNCHANGED <<cmd, client, opened, openSessions, requests, ret, replies>>
    /\ UNCHANGED recVars

\* a client closed at the end of the block only, and so not when fetch_json raises
CloseSessionOnReturn(i) ==
    /\ pc[i] = "close"
    /\ openSessions' = IF resp[i].t = "ok" THEN openSessions \ {client[i]} ELSE openSessions
    /\ client' = [client EXCEPT ![i] = 0]
    /\ pc' = [pc EXCEPT ![i] = IF resp[i].t = "ok" THEN "process" ELSE "fail"]
    /\ UNCHANGED <<cmd, opened, requests, resp, ret, replies>>
    /\ UNCHANGED recVars

\* leaving the async with block, by return or by exception
CloseSession(i) ==
    /\ pc[i] = "close"
    /\ openSessions' = openSessions \ {client[i]}
    /\ client' = [client EXCEPT ![i] = 0]
    /\ pc' = [pc EXCEPT ![i] = IF resp[i].t = "ok" THEN "process" ELSE "fail"]
    /\ UNCHANGED <<cmd, opened, requests, resp, ret, replies>>
    /\ UNCHANGED recVars

\* the reply of a handler to what the processing produced
ReplyFor(r) == IF r.t = "picks" THEN TextMsg(r.v) ELSE Msg("error")

\* the rest of scan_geckoterminal, and the reply of trending / new
ScanFinish(i) ==
    /\ pc[i] = "process"
    /\ cmd[i].name \in {"trending", "new"}
    /\ ret' = [ret EXCEPT ![i] = ScanResult(resp[i].body)]
    /\ Say(i, ReplyFor(ret'[i]))
    /\ pc' = [pc EXCEPT ![i] = "done"]
    /\ UNCHANGED <<cmd, client, opened, openSessions, requests, resp>>
    /\ UNCHANGED recVars

\* the rest of search
SearchFinish(i) ==
    /\ pc[i] = "process"
    /\ cmd[i].name = "search"
    /\ ret' = [ret EXCEPT ![i] = SearchResult(resp[i].body)]
    /\ Say(i, ReplyFor(ret'[i]))
    /\ pc' = [pc EXCEPT ![i] = "done"]
    /\ UNCHANGED <<cmd, client, opened, openSessions, requests, resp>>
    /\ UNCHANGED recVars

\* except Exception as e, after a failed fetch
ReplyError(i) ==
    /\ pc[i] = "fail"
    /\ Say(i, Msg("error"))
    /\ pc' = [pc EXCEPT ![i] = "done"]
    /\ UNCHANGED <<cmd, client, opened, openSessions, requests, resp, ret>>
    /\ UNCHANGED recVars

----------------------------------------------------------------------------
(* Specifications *)

CmdInit ==
    /\ pc = [i \in Invocations |-> "idle"]
    /\ cmd = [i \in Invocations |-> NoCmd]
    /\ client = [i \in Invocations |-> 0]
    /\ opened = <<>>
    /\ openSessions = {}
    /\ requests = [i \in Invocations |-> <<>>]
    /\ resp = [i \in Invocations |-> NoResp]
    /\ ret = [i \in Invocations |-> NoRet]
    /\ replies = [i \in Invocations |-> <<>>]

\* one command at a time, over every sample response
Init ==
    /\ rec = Null
    /\ rpc = "off"
    /\ summ = NoSummary
    /\ elig = "none"
    /\ CmdInit

ScanInvs == {1}

Next ==
    \E i \in ScanInvs :
        \/ StartCmd(i)
        \/ \E kind \in {"trending", "new"} : ScanCmd(i, kind)
        \/ \E hasArg \in BOOLEAN : SearchCmd(i, hasArg)
        \/ OpenSession(i)
        \/ SendGet(i)
        \/ \E o \in Outcomes(cmd[i].name) : Response(i, o)
        \/ CloseSession(i)
        \/ ScanFinish(i)
        \/ SearchFinish(i)
        \/ ReplyError(i)

Spec == Init /\ [][Next]_vars

\* several commands interleaved at their awaits
NextConc ==
    \E i \in Invocations :
        \/ StartCmd(i)
        \/ \E kind \in {"trending", "new"} : ScanCmd(i, kind)
        \/ \E hasArg \in BOOLEAN : SearchCmd(i, hasArg)
        \/ OpenSession(i)
        \/ SendGet(i)
        \/ \E o \in ConcOutcomes(cmd[i].name) : Response(i, o)
        \/ CloseSession(i)
        \/ ScanFinish(i)
        \/ SearchFinish(i)
        \/ ReplyError(i)

SpecConc == Init /\ [][NextConc]_vars

\* one raw record through summarize_pool and looks_like_memecoin
InitRecord ==
    /\ rec \in RawPools
    /\ rpc = "raw"
    /\ summ = NoSummary
    /\ elig = "none"
    /\ CmdInit

NextRecord == Summarize \/ Filter

SpecRecord == InitRecord /\ [][NextRecord]_vars

----------------------------------------------------------------------------
(* Properties of one record: summarize_pool and looks_like_memecoin *)

\* C1: looks_like_memecoin is true exactly when liq >= 3000, txs >= 20,
\* fdv <= 20,000,000 and age <= 48 all hold; with any single one of the four
\* comparisons false and the other three true, it is false.
C1_StrictConjunction ==
    (rpc = "filtered" /\ summ.m.txs.t = "num") =>
        LET m == summ.m
            a == m.liq >= 3000
            b == m.txs.v >= 20
            c == m.fdv <= 20000000
            d == ~m.age.inf /\ m.age.h <= 48
        IN  /\ elig \in {"yes", "no"}
            /\ (elig = "yes") <=> (a /\ b /\ c /\ d)
            /\ (~a /\ b /\ c /\ d) => elig = "no"
            /\ (a /\ ~b /\ c /\ d) => elig = "no"
            /\ (a /\ b /\ ~c /\ d) => elig = "no"
            /\ (a /\ b /\ c /\ ~d) => elig = "no"

\* a record on three thresholds and one hour past the fourth has been refused
C1_Witness ==
    /\ rpc = "filtered"
    /\ elig = "no"
    /\ summ.m.liq = 3000
    /\ summ.m.txs = Num(20)
    /\ summ.m.fdv = 20000000
    /\ summ.m.age = AgeOf(49)

\* a pool record: an object whose attributes, when there, are an object
PoolRecord(p) == p.t = "dict" /\ ("attributes" \in p.keys => p.f["attributes"].t = "dict")

\* C4: for every raw pool record, whatever its fields hold, summarize_pool
\* produces metrics with fdv >= 0, liquidity >= 0, txCount1h an integer >= 0 and
\* ageHours >= 0 or +infinity.
C4_MetricsPopulatedNonNegative ==
    (rpc \in {"summarized", "raised", "filtered"} /\ PoolRecord(rec)) =>
        /\ ~summ.raised
        /\ summ.m.fdv >= 0
        /\ summ.m.liq >= 0
        /\ summ.m.txs.t = "num" /\ summ.m.txs.v >= 0
        /\ (summ.m.age.inf \/ summ.m.age.h >= 0)

----------------------------------------------------------------------------
(* Properties of interleaved commands *)

SessionsOf(i) == {s \in 1..Len(opened) : opened[s] = i}

\* C10: under any interleaving, every invocation that fetches opens one session
\* of its own, issues its request on that session and on no other, and has
\* released it when it finishes, whether the fetch succeeded, got an error
\* status or raised; once all invocations have finished no session is open.
C10_SessionPerInvocation ==
    /\ \A i \in Invocations :
        /\ Cardinality(SessionsOf(i)) <= 1
        /\ Len(requests[i]) > 0 => Cardinality(SessionsOf(i)) = 1
        /\ \A k \in 1..Len(requests[i]) : requests[i][k] \in SessionsOf(i)
        /\ pc[i] = "wait" => client[i] \in openSessions
        /\ pc[i] = "done" => SessionsOf(i) \cap openSessions = {}
    /\ (\A i \in Invocations : pc[i] \in {"idle", "done"}) => openSessions = {}

\* two invocations have finished, the one that opened its session second after a
\* successful fetch, the other after an error status
C10_Witness ==
    /\ \A i \in Invocations : pc[i] = "done"
    /\ opened = <<2, 1>>
    /\ resp[1].t = "ok"
    /\ resp[2].t = "http_error"
    /\ requests = [i \in Invocations |-> <<3 - i>>]

----------------------------------------------------------------------------
(* Properties of one command over every sample response *)

IsScan(i) == cmd[i].name \in {"trending", "new"}
IsSearch(i) == cmd[i].name = "search"

\* the fetch of i succeeded and the body holds a list under key
FetchedList(i, key) ==
    /\ resp[i].t = "ok"
    /\ resp[i].body.t = "dict"
    /\ key \in resp[i].body.keys
    /\ resp[i].body.f[key].t = "list"

SourceList(i, key) == resp[i].body.f[key].v

\* scan_geckoterminal returned reports, not the placeholder
ReturnedReports(i) ==
    /\ pc[i] = "done"
    /\ IsScan(i)
    /\ ret[i].t = "picks"
    /\ ret[i].v # <<NoCandidates>>
    /\ FetchedList(i, "data")

IsPrefix(a, b) == Len(a) <= Len(b) /\ SubSeq(b, 1, Len(a)) = a

Occurs(x, s) == \E j \in 1..Len(s) : s[j] = x

Count(x, s) == Cardinality({j \in 1..Len(s) : s[j] = x})

RankedAbove(a, b) == a.txs.v > b.txs.v \/ (a.txs.v = b.txs.v /\ a.liq > b.liq)

\* C3: for every fetched list of pool records with k eligible records,
\* scan_geckoterminal returns min(k, 10) reports when k >= 1, those of the 10
\* highest-ranked eligible records and of no other, and the placeholder alone
\* when k = 0; never the empty sequence.
C3_TopTenOrPlaceholder ==
    \A i \in Invocations :
        (/\ pc[i] = "done" /\ IsScan(i) /\ FetchedList(i, "data")
         /\ \A j \in 1..Len(SourceList(i, "data")) : PoolRecord(SourceList(i, "data")[j])) =>
            /\ ret[i].t = "picks"
            /\ LET picks == ret[i].v
                   el == Eligible(SourceList(i, "data"))
                   elTexts == [j \in 1..Len(el) |-> el[j].text]
                   k == Len(el)
               IN  /\ picks # <<>>
                   /\ k = 0 => picks = <<NoCandidates>>
                   /\ k >= 1 =>
                        /\ Len(picks) = (IF k < 10 THEN k ELSE 10)
                        /\ \A j \in 1..Len(picks) :
                                /\ Occurs(picks[j], elTexts)
                                /\ Count(picks[j], picks) <= Count(picks[j], elTexts)
                        /\ \A e \in 1..k :
                                Count(elTexts[e], picks) < Count(elTexts[e], elTexts) =>
                                    \A j \in 1..Len(picks) : ~RankedAbove(elTexts[e], picks[j])

\* the part of C3 the code keeps: the same, for the lists none of whose records
\* makes summarize_pool or the filter raise
C3_WhenNoRecordRaises ==
    \A i \in Invocations :
        (/\ pc[i] = "done" /\ IsScan(i) /\ FetchedList(i, "data")
         /\ \A j \in 1..Len(SourceList(i, "data")) : ~ItemRaises(SourceList(i, "data")[j])) =>
            /\ ret[i].t = "picks"
            /\ LET picks == ret[i].v
                   el == Eligible(SourceList(i, "data"))
                   elTexts == [j \in 1..Len(el) |-> el[j].text]
                   k == Len(el)
               IN  /\ picks # <<>>
                   /\ k = 0 => picks = <<NoCandidates>>
                   /\ k >= 1 =>
                        /\ Len(picks) = (IF k < 10 THEN k ELSE 10)
                        /\ \A j \in 1..Len(picks) :
                                /\ Occurs(picks[j], elTexts)
                                /\ Count(picks[j], picks) <= Count(picks[j], elTexts)
                        /\ \A e \in 1..k :
                                Count(elTexts[e], picks) < Count(elTexts[e], elTexts) =>
                                    \A j \in 1..Len(picks) : ~RankedAbove(elTexts[e], picks[j])

\* fifteen eligible records have given ten reports
C3_TruncationReached ==
    \E i \in Invocations :
        /\ ReturnedReports(i)
        /\ Len(Eligible(SourceList(i, "data"))) = 15
        /\ Len(ret[i].v) = 10

\* the creation time is null, missing or unreadable
Unreadable(x) == x \in {Null, Num(98), Str(<<"x">>), Str(<<>>), Str(<<"9", "8", "+">>)}

\* C5: a record whose pool_created_at is null, missing or unparsable gets the
\* age +infinity, and its report is never among those scan_geckoterminal
\* returns, whatever its liquidity, transaction count and FDV.
C5_UnreadableTimeExcluded ==
    \A i \in Invocations :
        (pc[i] = "done" /\ IsScan(i) /\ ret[i].t = "picks" /\ FetchedList(i, "data")) =>
            \A j \in 1..Len(SourceList(i, "data")) :
                LET p == SourceList(i, "data")[j]
                IN  Unreadable(Get(AttrsOf(p), "pool_created_at")) =>
                        /\ summarize_pool(p).m.age.inf
                        /\ ~Occurs(summarize_pool(p).text, ret[i].v)
                        /\ \A n \in 1..Len(ret[i].v) :
                                ret[i].v[n].t = "report" => ~ret[i].v[n].age.inf

\* a record above every threshold but without a creation time was fetched before
\* an eligible one, and only the latter was reported
C5_Witness ==
    \E i \in Invocations :
        /\ ReturnedReports(i)
        /\ SourceList(i, "data") = <<PoolNoTime, PoolA>>
        /\ ret[i].v = <<summarize_pool(PoolA).text>>

HasError(i) == \E n \in 1..Len(replies[i]) : replies[i][n].k = "error"

\* a search pair whose objects are where the code subscripts them; its numeric
\* fields (priceUsd, liquidity.usd, the h1 counts) may hold anything
PairRecord(p) ==
    /\ p.t = "dict"
    /\ ~SubscriptRaises(p, "baseToken", "symbol")
    /\ ~SubscriptRaises(p, "quoteToken", "symbol")
    /\ ~GetGetRaises(p, "liquidity")
    /\ ~H1Raises(p)

\* C6: on the trending, new and search paths, a fetched record with a missing,
\* null or malformed numeric or timestamp field never makes the command reply
\* with an error and never stops the processing of the records.
C6_FieldErrorsNotSurfaced ==
    \A i \in Invocations :
        (/\ pc[i] = "done"
         /\ \/ /\ IsScan(i) /\ FetchedList(i, "data")
               /\ \A j \in 1..Len(SourceList(i, "data")) : PoolRecord(SourceList(i, "data")[j])
            \/ /\ IsSearch(i) /\ FetchedList(i, "pairs")
               /\ \A j \in 1..Len(SourceList(i, "pairs")) : PairRecord(SourceList(i, "pairs")[j])) =>
            /\ ~HasError(i)
            /\ ret[i].t = "picks"

\* fetch_json raised: an error status, a network error or timeout, or a body
\* that is not JSON
FetchFailed(i) == resp[i].t \in {"http_error", "transport_error", "bad_body"}

\* C7: a command whose fetch fails issues no further fetch, sends no report or
\* placeholder and replies with exactly one error message; and an error reply
\* is sent only after such a failure.
C7_ErrorIffFetchFailed ==
    \A i \in Invocations :
        /\ Len(requests[i]) <= 1
        /\ (pc[i] = "done" /\ FetchFailed(i)) =>
                /\ replies[i] = <<Msg("progress"), Msg("error")>>
                /\ ret[i] = NoRet
        /\ HasError(i) => FetchFailed(i)

\* the part of C7 the code keeps: what follows a failed fetch
C7_AfterFailedFetch ==
    \A i \in Invocations :
        /\ Len(requests[i]) <= 1
        /\ (pc[i] = "done" /\ FetchFailed(i)) =>
                /\ replies[i] = <<Msg("progress"), Msg("error")>>
                /\ ret[i] = NoRet

\* C8: when the body of a successful response has its pool-list field absent or
\* not a list, scan_geckoterminal returns the placeholder alone, raises nothing,
\* and the command sends no error reply.
C8_OddListFieldIsEmpty ==
    \A i \in Invocations :
        (/\ pc[i] = "done" /\ IsScan(i)
         /\ resp[i].t = "ok" /\ resp[i].body.t = "dict"
         /\ ~FetchedList(i, "data")) =>
            /\ ret[i] = Picks(<<NoCandidates>>)
            /\ replies[i] = <<Msg("progress"), TextMsg(<<NoCandidates>>)>>

\* the chain identifier is one of the target network's
InTarget(p) == Get(p, "chainId") \in {Str(<<"pulsechain">>), Str(<<"pulse">>)}

\* C9: the search reply holds exactly the first min(10, n) of the n records of
\* the target chain, in source order, unfiltered and unranked, none of another
\* chain, and the "no results" placeholder when n = 0.
C9_FirstTenOfTargetChain ==
    \A i \in Invocations :
        (/\ pc[i] = "done" /\ IsSearch(i) /\ cmd[i].arg /\ FetchedList(i, "pairs")
         /\ \A j \in 1..Len(SourceList(i, "pairs")) : SourceList(i, "pairs")[j].t = "dict") =>
            /\ ret[i].t = "picks"
            /\ replies[i] = <<Msg("progress"), TextMsg(ret[i].v)>>
            /\ LET matching == SelectSeq(SourceList(i, "pairs"), InTarget)
                   n == Len(matching)
               IN  /\ n = 0 => ret[i].v = <<NoResults>>
                   /\ n > 0 =>
                        /\ Len(ret[i].v) = (IF n < 10 THEN n ELSE 10)
                        /\ \A j \in 1..Len(ret[i].v) : ret[i].v[j] = PairLine(matching[j])

\* the part of C9 the code keeps: the same, for the responses none of whose
\* pairs makes the loop raise
C9_WhenNoPairRaises ==
    \A i \in Invocations :
        (/\ pc[i] = "done" /\ IsSearch(i) /\ cmd[i].arg /\ FetchedList(i, "pairs")
         /\ \A j \in 1..Len(SourceList(i, "pairs")) : ~PairRaises(SourceList(i, "pairs")[j])) =>
            /\ ret[i].t = "picks"
            /\ replies[i] = <<Msg("progress"), TextMsg(ret[i].v)>>
            /\ LET matching == SelectSeq(SourceList(i, "pairs"), InTarget)
                   n == Len(matching)
               IN  /\ n = 0 => ret[i].v = <<NoResults>>
                   /\ n > 0 =>
                        /\ Len(ret[i].v) = (IF n < 10 THEN n ELSE 10)
                        /\ \A j \in 1..Len(ret[i].v) : ret[i].v[j] = PairLine(matching[j])

====
